---- MODULE Spec2Model ----
(***************************************************************************)
(* Model of the paper updater (updater/src/main_improved.rs, and the       *)
(* update_paper_from_dblp of updater/src/main.rs).                         *)
(*                                                                         *)
(* Strings are sequences of one-character strings, so that normalisation,  *)
(* splitting, case folding, URL cleaning and number/date parsing are       *)
(* computed character by character as the code computes them.              *)
(* Option<T> is a sequence of length 0 (None) or 1 (Some(x)).              *)
(* f64 scores are exact rationals [num, den]; thresholds are in tenths.    *)
(***************************************************************************)
EXTENDS Integers, Sequences, FiniteSets, TLC

\* pc      where the program stands
\* papers  the loaded records, <<[path, paper], ...>>, in processing order
\* idx     the record being processed
\* stats   the UpdateStats accumulator
\* disk    the record store: the content of each file, by path
\* log     history: the steps the driver has run, <<path, step>>, after one
\*         entry <<0, files>> holding the directory as it was loaded
\* last    history: the last call made, its arguments and what it returned
VARIABLES pc, papers, idx, stats, disk, log, last

vars == <<pc, papers, idx, stats, disk, log, last>>

(***************************************************************************)
(* Bounds of the model.                                                    *)
(***************************************************************************)
\* longest title drawn for the scorer specification
MaxTitleLen == 3
\* longest remote response (number of entries / hits)
MaxCands == 2
\* reconcile calls applied to one record in SpecReconcile / SpecLegacy
MaxCalls == 2
\* record files the batch driver loads
MaxPapers == 2

(***************************************************************************)
(* Program constants.                                                      *)
(***************************************************************************)
\* 0.7 * jaccard + 0.3 * lev_similarity, in tenths
JaccardWeightTenths == 7
LevWeightTenths == 3
\* update_paper_from_arxiv(&mut paper, 0.7, ..), update_paper_from_dblp(.., 0.6, ..)
ArxivThresholdTenths == 7
DblpThresholdTenths == 6
\* main.rs: update_paper_from_dblp(&mut paper, 4)
LegacyAcc == 4
\* i32::MAX, the largest value str::parse::<i32> accepts
I32Max == 2147483647

(***************************************************************************)
(* Option<T>                                                               *)
(***************************************************************************)
None == <<>>
Some(x) == <<x>>
is_none(o) == o = <<>>
is_some(o) == o # <<>>
unwrap_or(o, d) == IF o = <<>> THEN d ELSE o[1]

(***************************************************************************)
(* Characters                                                              *)
(***************************************************************************)
UpperLetters == <<"A","B","C","D","E","F","G","H","I","J","K","L","M",
                  "N","O","P","Q","R","S","T","U","V","W","X","Y","Z">>
LowerLetters == <<"a","b","c","d","e","f","g","h","i","j","k","l","m",
                  "n","o","p","q","r","s","t","u","v","w","x","y","z">>
DigitChars == <<"0","1","2","3","4","5","6","7","8","9">>

UpperSet == {UpperLetters[k] : k \in 1..26}
LowerSet == {LowerLetters[k] : k \in 1..26}
DigitSet == {DigitChars[k] : k \in 1..10}
LowerOf == [c \in UpperSet |-> LowerLetters[CHOOSE k \in 1..26 : UpperLetters[k] = c]]
ValueOf == [c \in DigitSet |-> (CHOOSE k \in 1..10 : DigitChars[k] = c) - 1]

is_digit(c) == c \in DigitSet
DigitVal(c) == ValueOf[c]
is_alphabetic(c) == c \in UpperSet \/ c \in LowerSet
\* regex \s
is_whitespace(c) == c \in {" ", "\t", "\n"}
\* regex \w : letters, digits and the underscore
is_word_char(c) == is_alphabetic(c) \/ is_digit(c) \/ c = "_"
char_to_lowercase(c) == IF c \in UpperSet THEN LowerOf[c] ELSE c

(***************************************************************************)
(* str helpers of the standard library, as the code uses them              *)
(***************************************************************************)
to_lowercase(s) == [k \in 1..Len(s) |-> char_to_lowercase(s[k])]

RECURSIVE SplitWsFrom(_, _, _, _)
SplitWsFrom(s, k, cur, acc) ==
    IF k > Len(s) THEN (IF cur = <<>> THEN acc ELSE Append(acc, cur))
    ELSE IF is_whitespace(s[k])
         THEN SplitWsFrom(s, k + 1, <<>>, IF cur = <<>> THEN acc ELSE Append(acc, cur))
         ELSE SplitWsFrom(s, k + 1, Append(cur, s[k]), acc)

\* str::split_whitespace: the maximal runs of non-whitespace characters
split_whitespace(s) == SplitWsFrom(s, 1, <<>>, <<>>)

RECURSIVE join(_, _)
\* [String]::join(sep)
join(words, sep) ==
    IF words = <<>> THEN <<>>
    ELSE IF Len(words) = 1 THEN words[1]
    ELSE words[1] \o sep \o join(Tail(words), sep)

RECURSIVE trim_start(_)
trim_start(s) == IF s # <<>> /\ is_whitespace(s[1]) THEN trim_start(Tail(s)) ELSE s
RECURSIVE trim_end(_)
trim_end(s) ==
    IF s # <<>> /\ is_whitespace(s[Len(s)]) THEN trim_end(SubSeq(s, 1, Len(s) - 1)) ELSE s
\* str::trim
trim(s) == trim_end(trim_start(s))

RECURSIVE SplitDelimFrom(_, _, _, _)
SplitDelimFrom(s, k, cur, acc) ==
    IF k > Len(s) THEN Append(acc, cur)
    ELSE IF s[k] \in {",", ";", "&"}
         THEN SplitDelimFrom(s, k + 1, <<>>, Append(acc, cur))
         ELSE SplitDelimFrom(s, k + 1, Append(cur, s[k]), acc)

\* str::split(&[',', ';', '&'][..]): every segment, the empty ones included
split_delims(s) == SplitDelimFrom(s, 1, <<>>, <<>>)

RECURSIVE trim_nonalpha_start(_)
trim_nonalpha_start(s) ==
    IF s # <<>> /\ ~is_alphabetic(s[1]) THEN trim_nonalpha_start(Tail(s)) ELSE s
RECURSIVE trim_nonalpha_end(_)
trim_nonalpha_end(s) ==
    IF s # <<>> /\ ~is_alphabetic(s[Len(s)])
    THEN trim_nonalpha_end(SubSeq(s, 1, Len(s) - 1)) ELSE s
\* str::trim_matches(|c| !c.is_alphabetic())
trim_matches_nonalpha(s) == trim_nonalpha_end(trim_nonalpha_start(s))

StartsWithAt(s, k, pat) ==
    /\ k + Len(pat) - 1 <= Len(s)
    /\ \A j \in 1..Len(pat) : s[k + j - 1] = pat[j]

RECURSIVE ReplaceFrom(_, _, _, _)
ReplaceFrom(s, k, from, to) ==
    IF k > Len(s) THEN <<>>
    ELSE IF StartsWithAt(s, k, from)
         THEN to \o ReplaceFrom(s, k + Len(from), from, to)
         ELSE <<s[k]>> \o ReplaceFrom(s, k + 1, from, to)

\* str::replace(from, to): every non-overlapping occurrence, left to right
replace(s, from, to) == ReplaceFrom(s, 1, from, to)

I32Min == (0 - I32Max) - 1

RECURSIVE ParseDigits(_, _, _)
\* core::num from_str_radix: per digit a checked multiply by 10, then a checked
\* add (or, after a minus sign, a checked subtract); None on a non-digit or overflow
ParseDigits(s, acc, neg) ==
    IF s = <<>> THEN Some(acc)
    ELSE IF ~is_digit(s[1]) THEN None
    ELSE LET d == DigitVal(s[1])
         IN  IF neg
             THEN IF acc < 0 - (I32Max \div 10) THEN None
                  ELSE IF acc * 10 < I32Min + d THEN None
                  ELSE ParseDigits(Tail(s), acc * 10 - d, neg)
             ELSE IF acc > I32Max \div 10 THEN None
                  ELSE IF acc * 10 > I32Max - d THEN None
                  ELSE ParseDigits(Tail(s), acc * 10 + d, neg)

\* str::parse::<i32>().ok(): optional sign, at least one digit, within i32
parse_i32(s) ==
    LET neg    == s # <<>> /\ s[1] = "-"
        signed == s # <<>> /\ s[1] \in {"+", "-"}
        digits == IF signed THEN Tail(s) ELSE s
    IN  IF digits = <<>> THEN None ELSE ParseDigits(digits, 0, neg)

(***************************************************************************)
(* normalize_title                                                         *)
(***************************************************************************)
strip_non_word(s) == SelectSeq(s, LAMBDA c : is_word_char(c) \/ is_whitespace(c))

normalize_title(title) ==
    trim(join(split_whitespace(to_lowercase(strip_non_word(title))), <<" ">>))

(***************************************************************************)
(* levenshtein::levenshtein (unit-cost insert / delete / substitute),      *)
(* computed row by row                                                     *)
(***************************************************************************)
Min2(a, b) == IF a <= b THEN a ELSE b
Max2(a, b) == IF a >= b THEN a ELSE b

RECURSIVE LevRow(_, _, _, _)
\* cur holds columns 0..Len(cur)-1 of the row of character ch; prev is the row above
LevRow(prev, ch, b, cur) ==
    IF Len(cur) = Len(b) + 1 THEN cur
    ELSE LET j    == Len(cur)
             cost == IF b[j] = ch THEN 0 ELSE 1
             v    == Min2(Min2(prev[j + 1] + 1, cur[j] + 1), prev[j] + cost)
         IN  LevRow(prev, ch, b, Append(cur, v))

RECURSIVE LevRows(_, _, _, _)
LevRows(a, b, i, prev) ==
    IF i > Len(a) THEN prev[Len(b) + 1]
    ELSE LevRows(a, b, i + 1, LevRow(prev, a[i], b, <<i>>))

levenshtein(a, b) == LevRows(a, b, 1, [j \in 1..(Len(b) + 1) |-> j - 1])

(***************************************************************************)
(* similarity_score, as an exact rational in [num, den]                    *)
(***************************************************************************)
TokenSet(norm) == LET w == split_whitespace(norm) IN {w[k] : k \in 1..Len(w)}

similarity_score_wrong_weights(s1, s2) ==
    LET norm1   == normalize_title(s1)
        norm2   == normalize_title(s2)
        tokens1 == TokenSet(norm1)
        tokens2 == TokenSet(norm2)
        inter   == Cardinality(tokens1 \cap tokens2)
        union   == Cardinality(tokens1 \cup tokens2)
        max_len == Max2(Len(norm1), Len(norm2))
        lev     == levenshtein(norm1, norm2)
    IN  IF union = 0 THEN [num |-> 0, den |-> 1]
        ELSE [num |-> LevWeightTenths * inter * max_len
                      + JaccardWeightTenths * (max_len - lev) * union,
              den |-> 10 * union * max_len]

similarity_score(s1, s2) ==
    LET norm1   == normalize_title(s1)
        norm2   == normalize_title(s2)
        tokens1 == TokenSet(norm1)
        tokens2 == TokenSet(norm2)
        inter   == Cardinality(tokens1 \cap tokens2)
        union   == Cardinality(tokens1 \cup tokens2)
        max_len == Max2(Len(norm1), Len(norm2))
        lev     == levenshtein(norm1, norm2)
    IN  IF union = 0 THEN [num |-> 0, den |-> 1]
        ELSE [num |-> JaccardWeightTenths * inter * max_len
                      + LevWeightTenths * (max_len - lev) * union,
              den |-> 10 * union * max_len]

\* similarity >= similarity_threshold
meets_threshold(score, tenths) == score.num * 10 >= tenths * score.den

(***************************************************************************)
(* extract_authors_last_names                                              *)
(***************************************************************************)
last_name_of(author) ==
    LET words == split_whitespace(trim(author))
        lastw == IF words = <<>> THEN <<>> ELSE words[Len(words)]
    IN  trim_matches_nonalpha(lastw)

extract_authors_last_names(authors_text) ==
    LET segs  == split_delims(authors_text)
        names == [k \in 1..Len(segs) |-> last_name_of(segs[k])]
    IN  join(SelectSeq(names, LAMBDA n : n # <<>>), <<",", " ">>)

(***************************************************************************)
(* chrono DateTime::parse_from_rfc3339, for the form the arXiv feed emits, *)
(* YYYY-MM-DDThh:mm:ssZ (fractions and numeric offsets are not drawn).     *)
(* Some([year, month, day]) or None.                                       *)
(***************************************************************************)
Num(s) == ParseDigits(s, 0, FALSE)

IsLeap(y) == (y % 4 = 0 /\ y % 100 # 0) \/ y % 400 = 0

DaysInMonth(y, m) ==
    IF m = 2 THEN (IF IsLeap(y) THEN 29 ELSE 28)
    ELSE IF m \in {4, 6, 9, 11} THEN 30 ELSE 31

parse_from_rfc3339(s) ==
    IF Len(s) # 20 THEN None
    ELSE LET y  == Num(SubSeq(s, 1, 4))
             mo == Num(SubSeq(s, 6, 7))
             d  == Num(SubSeq(s, 9, 10))
             h  == Num(SubSeq(s, 12, 13))
             mi == Num(SubSeq(s, 15, 16))
             se == Num(SubSeq(s, 18, 19))
         IN  IF /\ s[5] = "-" /\ s[8] = "-" /\ s[11] \in {"T", "t"}
                /\ s[14] = ":" /\ s[17] = ":" /\ s[20] \in {"Z", "z"}
                /\ \A n \in {y, mo, d, h, mi, se} : is_some(n)
                /\ mo[1] \in 1..12 /\ d[1] \in 1..DaysInMonth(y[1], mo[1])
                /\ h[1] <= 23 /\ mi[1] <= 59 /\ se[1] <= 60
             THEN Some([year |-> y[1], month |-> mo[1], day |-> d[1]])
             ELSE None

(***************************************************************************)
(* The arXiv id cleaning: Regex "v\d+$" replaced by "", then               *)
(* replace("http://", "https://")                                          *)
(***************************************************************************)
RECURSIVE TrailingDigits(_)
TrailingDigits(s) ==
    IF s # <<>> /\ is_digit(s[Len(s)]) THEN 1 + TrailingDigits(SubSeq(s, 1, Len(s) - 1)) ELSE 0

strip_version(s) ==
    LET n == TrailingDigits(s)
    IN  IF n >= 1 /\ Len(s) > n /\ s[Len(s) - n] = "v"
        THEN SubSeq(s, 1, Len(s) - n - 1) ELSE s

HttpScheme == <<"h","t","t","p",":","/","/">>
HttpsScheme == <<"h","t","t","p","s",":","/","/">>

clean_url(id_text) == replace(strip_version(id_text), HttpScheme, HttpsScheme)

(***************************************************************************)
(* Paper, Publication, UpdateStats                                         *)
(***************************************************************************)
arXiv == <<"a","r","X","i","v">>
CoRR == <<"C","o","R","R">>

Publication(name, url, year, month, day, dblp_key, bibtex) ==
    [name |-> name, url |-> url, year |-> year, month |-> month, day |-> day,
     dblp_key |-> dblp_key, bibtex |-> bibtex]

UpdateStats_new ==
    [papers_processed |-> 0, arxiv_updates |-> 0, dblp_updates |-> 0,
     errors |-> 0, new_publications |-> 0]

\* the first index whose publication satisfies the test, 0 when there is none
\* (Iterator::find)
FindArxiv(pubs) ==
    IF \E k \in 1..Len(pubs) : pubs[k].name = arXiv
    THEN CHOOSE k \in 1..Len(pubs) :
            pubs[k].name = arXiv /\ \A j \in 1..(k - 1) : pubs[j].name # arXiv
    ELSE 0

FindVenue(pubs, venue) ==
    IF \E k \in 1..Len(pubs) : to_lowercase(pubs[k].name) = to_lowercase(venue)
    THEN CHOOSE k \in 1..Len(pubs) :
            /\ to_lowercase(pubs[k].name) = to_lowercase(venue)
            /\ \A j \in 1..(k - 1) : to_lowercase(pubs[j].name) # to_lowercase(venue)
    ELSE 0

Bump_twice(st, field, on) == IF on THEN [st EXCEPT ![field] = @ + 2] ELSE st

Bump(st, field, on) == IF on THEN [st EXCEPT ![field] = @ + 1] ELSE st

(***************************************************************************)
(* Steps shared by both reconcile functions                                *)
(***************************************************************************)
authors_missing_always(paper) == TRUE

\* if paper.authors.is_none()
authors_missing(paper) == is_none(paper.authors)

\* authors.join(", ") then extract_authors_last_names
authors_from(names) == Some(extract_authors_last_names(join(names, <<",", " ">>)))

\* if paper.authors.is_none() { if !authors.is_empty() { paper.authors = Some(..) } }
authors_step(paper, names) ==
    IF authors_missing(paper) /\ names # <<>>
    THEN [paper EXCEPT !.authors = authors_from(names)]
    ELSE paper

Outcome(paper, st, events) == [paper |-> paper, stats |-> st, events |-> events]

(***************************************************************************)
(* update_paper_from_arxiv (main_improved.rs)                              *)
(***************************************************************************)
arxiv_publication_day_month_swapped(url, date) ==
    Publication(arXiv, Some(url), Some(date.year), Some(date.day), Some(date.month),
                None, None)

\* Publication { name: "arXiv", url: Some(clean_url), year, month, day, None, None }
arxiv_publication(url, date) ==
    Publication(arXiv, Some(url), Some(date.year), Some(date.month), Some(date.day),
                None, None)

\* the body of "if similarity >= similarity_threshold" for one entry
arxiv_merge(paper, st, entry) ==
    LET p1      == authors_step(paper, entry.authors)
        authUpd == authors_missing(paper) /\ entry.authors # <<>>
        date    == IF is_some(entry.published)
                   THEN parse_from_rfc3339(entry.published[1]) ELSE None
        havePub == is_some(date) /\ is_some(entry.id)
        url     == clean_url(entry.id[1])
        k       == FindArxiv(p1.publications)
        isNew   == havePub /\ k = 0
        urlUpd  == havePub /\ k # 0 /\ p1.publications[k].url # Some(url)
        p2      == IF ~havePub THEN p1
                   ELSE IF k # 0
                   THEN [p1 EXCEPT !.publications[k] = arxiv_publication(url, date[1])]
                   ELSE [p1 EXCEPT !.publications =
                            Append(@, arxiv_publication(url, date[1]))]
        updated == authUpd \/ urlUpd \/ isNew
        events  == (IF authUpd THEN <<"authors">> ELSE <<>>)
                   \o (IF urlUpd THEN <<"updated">> ELSE <<>>)
                   \o (IF isNew THEN <<"new publication">> ELSE <<>>)
    IN  Outcome(p2, Bump(Bump(st, "new_publications", isNew), "arxiv_updates", updated),
                events)

RECURSIVE arxiv_entries_loop_no_break(_, _, _, _, _)
arxiv_entries_loop_no_break(paper, threshold, st, entries, k) ==
    IF k > Len(entries) THEN Outcome(paper, st, <<>>)
    ELSE LET title == unwrap_or(entries[k].title, <<>>)
         IN  IF meets_threshold(similarity_score(title, paper.title), threshold)
             THEN LET m    == arxiv_merge(paper, st, entries[k])
                      rest == arxiv_entries_loop_no_break(m.paper, threshold, m.stats,
                                                          entries, k + 1)
                  IN  Outcome(rest.paper, rest.stats, m.events \o rest.events)
             ELSE arxiv_entries_loop_no_break(paper, threshold, st, entries, k + 1)

RECURSIVE arxiv_entries_loop(_, _, _, _, _)
\* for entry in entries { ... if similarity >= threshold { ...; break; } }
arxiv_entries_loop(paper, threshold, st, entries, k) ==
    IF k > Len(entries) THEN Outcome(paper, st, <<>>)
    ELSE LET title == unwrap_or(entries[k].title, <<>>)
         IN  IF meets_threshold(similarity_score(title, paper.title), threshold)
             THEN arxiv_merge(paper, st, entries[k])
             ELSE arxiv_entries_loop(paper, threshold, st, entries, k + 1)

\* resp.ok = FALSE: the fetch, the timeout or the XML parse failed ("?" returns Err
\* before the loop is entered)
update_paper_from_arxiv(paper, threshold, st, resp) ==
    IF ~resp.ok THEN Outcome(paper, st, <<>>) @@ [result |-> "err"]
    ELSE arxiv_entries_loop(paper, threshold, st, resp.entries, 1) @@ [result |-> "ok"]

(***************************************************************************)
(* update_paper_from_dblp (main_improved.rs)                               *)
(***************************************************************************)
fill_if_none_overwrites(old, new) == IF is_some(new) THEN new ELSE old

\* if publ.f.is_none() && f.is_some() { publ.f = f.clone(); }
fill_if_none(old, new) == IF is_none(old) /\ is_some(new) THEN new ELSE old

\* "Skip preprints": venue == "CoRR" || venue.is_empty()
skip_venue(venue) == venue = CoRR \/ venue = <<>>

\* the bibtex blob: fetched only when the hit has a key; None when the fetch fails
dblp_bibtex(hit) == IF is_some(hit.key) THEN hit.bib ELSE None

dblp_year(hit) == IF is_some(hit.year) THEN parse_i32(hit.year[1]) ELSE None

dblp_new_publication_year_zero(hit, venue) ==
    Publication(venue, hit.ee, Some(unwrap_or(dblp_year(hit), 0)), None, None, hit.key,
                dblp_bibtex(hit))

\* Publication { name: venue, url, year, month: None, day: None, dblp_key: key, bibtex }
dblp_new_publication(hit, venue) ==
    Publication(venue, hit.ee, dblp_year(hit), None, None, hit.key, dblp_bibtex(hit))

\* the body of the loop for a hit that met the threshold and passed the venue test
dblp_merge(paper, st, hit, venue) ==
    LET p1      == authors_step(paper, hit.authors)
        authUpd == authors_missing(paper) /\ hit.authors # <<>>
        k       == FindVenue(p1.publications, venue)
        old     == p1.publications[k]
        filled  == [old EXCEPT !.dblp_key = fill_if_none(@, hit.key),
                               !.bibtex   = fill_if_none(@, dblp_bibtex(hit)),
                               !.url      = fill_if_none(@, hit.ee)]
        pubUpd  == /\ k # 0
                   /\ \/ is_none(old.dblp_key) /\ is_some(hit.key)
                      \/ is_none(old.bibtex) /\ is_some(dblp_bibtex(hit))
                      \/ is_none(old.url) /\ is_some(hit.ee)
        isNew   == k = 0
        p2      == IF k # 0 THEN [p1 EXCEPT !.publications[k] = filled]
                   ELSE [p1 EXCEPT !.publications =
                            Append(@, dblp_new_publication(hit, venue))]
        updated == authUpd \/ pubUpd \/ isNew
        events  == (IF authUpd THEN <<"authors">> ELSE <<>>)
                   \o (IF pubUpd THEN <<"updated">> ELSE <<>>)
                   \o (IF isNew THEN <<"new publication">> ELSE <<>>)
    IN  Outcome(p2, Bump(Bump(st, "new_publications", isNew), "dblp_updates", updated),
                events)

RECURSIVE dblp_hits_loop(_, _, _, _, _)
\* for hit in hits { if similarity >= threshold { if skip { continue; } ...; break; } }
dblp_hits_loop(paper, threshold, st, hits, k) ==
    IF k > Len(hits) THEN Outcome(paper, st, <<>>)
    ELSE LET title == unwrap_or(hits[k].title, <<>>)
             venue == unwrap_or(hits[k].venue, <<>>)
         IN  IF meets_threshold(similarity_score(title, paper.title), threshold)
             THEN IF skip_venue(venue)
                  THEN dblp_hits_loop(paper, threshold, st, hits, k + 1)
                  ELSE dblp_merge(paper, st, hits[k], venue)
             ELSE dblp_hits_loop(paper, threshold, st, hits, k + 1)

update_paper_from_dblp(paper, threshold, st, resp) ==
    IF ~resp.ok THEN Outcome(paper, st, <<>>) @@ [result |-> "err"]
    ELSE dblp_hits_loop(paper, threshold, st, resp.entries, 1) @@ [result |-> "ok"]

(***************************************************************************)
(* update_paper_from_dblp (main.rs).  result is "ok", "err" (a "?" returned *)
(* Err) or "panic" (an unwrap() of None / Err).                            *)
(***************************************************************************)
RECURSIVE LastSpaceSegment(_)
\* name.split(" ").last().unwrap(): what follows the last single space
LastSpaceSegment(s) ==
    IF s = <<>> \/ s[Len(s)] = " " THEN <<>>
    ELSE Append(LastSpaceSegment(SubSeq(s, 1, Len(s) - 1)), s[Len(s)])

legacy_authors(names) ==
    Some(join([k \in 1..Len(names) |-> LastSpaceSegment(names[k])], <<",", " ">>))

LegacyOutcome(paper, result) == [paper |-> paper, result |-> result]

legacy_dblp_merge(paper, hit) ==
    IF is_none(hit.year) \/ is_none(hit.key) \/ is_none(hit.ee)
    THEN LegacyOutcome(paper, "panic")
    ELSE IF is_none(hit.bib) THEN LegacyOutcome(paper, "err")
    ELSE LET k == FindVenue(paper.publications, hit.venue[1])
         IN  IF k # 0
             THEN LegacyOutcome(
                    [paper EXCEPT
                       !.publications[k].dblp_key = IF is_none(@) THEN hit.key ELSE @,
                       !.publications[k].bibtex   = IF is_none(@) THEN hit.bib ELSE @],
                    "ok")
             ELSE IF is_none(parse_i32(hit.year[1])) THEN LegacyOutcome(paper, "panic")
             ELSE LegacyOutcome(
                    [paper EXCEPT !.publications =
                        Append(@, Publication(hit.venue[1], hit.ee, parse_i32(hit.year[1]),
                                              None, None, hit.key, hit.bib))],
                    "ok")

RECURSIVE legacy_dblp_hits_loop(_, _, _, _)
legacy_dblp_hits_loop(paper, acc, hits, k) ==
    IF k > Len(hits) THEN LegacyOutcome(paper, "ok")
    ELSE IF is_none(hits[k].title) THEN LegacyOutcome(paper, "panic")
    ELSE IF levenshtein(to_lowercase(hits[k].title[1]), to_lowercase(paper.title)) < acc
         THEN LET p1 == IF is_none(paper.authors)
                        THEN [paper EXCEPT !.authors = legacy_authors(hits[k].authors)]
                        ELSE paper
              IN  IF is_none(hits[k].venue) THEN LegacyOutcome(p1, "panic")
                  ELSE IF hits[k].venue[1] = CoRR
                       THEN legacy_dblp_hits_loop(p1, acc, hits, k + 1)
                       ELSE legacy_dblp_merge(p1, hits[k])
         ELSE legacy_dblp_hits_loop(paper, acc, hits, k + 1)

legacy_update_paper_from_dblp(paper, acc, resp) ==
    IF ~resp.ok THEN LegacyOutcome(paper, "err")
    ELSE legacy_dblp_hits_loop(paper, acc, resp.entries, 1)

(***************************************************************************)
(* The inputs drawn: texts, remote entries and hits, record files          *)
(***************************************************************************)
T_ab == <<"a", " ", "b">>
T_AB == <<"A", " ", " ", "b", "!">>
T_abc == <<"a", " ", "b", " ", "c">>
T_far == <<"c", "d", "e", "f">>

Name_Ab == <<"A", ".", " ", "b">>
Name_c == <<"d", " ", "c", ".">>
Name_7 == <<"7">>

Date_2017 == <<"2","0","1","7","-","0","6","-","1","2","T","1","7",":","5","7",":","3","4","Z">>
Date_2020 == <<"2","0","2","0","-","0","2","-","2","9","T","0","0",":","0","0",":","0","0","Z">>
Date_bad == <<"2","0","1","9","-","0","2","-","2","9","T","0","0",":","0","0",":","0","0","Z">>

Id_a_v5 == <<"h","t","t","p",":","/","/","a","v","5">>
Id_a == <<"h","t","t","p","s",":","/","/","a">>
Id_b_v12 == <<"h","t","t","p",":","/","/","b","v","1","2">>
Url_a == <<"h","t","t","p","s",":","/","/","a">>
Url_b == <<"h","t","t","p","s",":","/","/","b">>
Url_d == <<"d","o","i">>
Url_e == <<"e","e">>

Key_1 == <<"k","1">>
Key_2 == <<"k","2">>
Bib_1 == <<"@","1">>
Bib_2 == <<"@","2">>

Venue_V == <<"V">>
Venue_v == <<"v">>
Venue_ARXIV == <<"A","R","X","I","V">>

ArxivEntry(title, authors, published, id) ==
    [title |-> title, authors |-> authors, published |-> published, id |-> id]

Entry_full == ArxivEntry(Some(T_AB), <<Name_Ab, Name_c>>, Some(Date_2017), Some(Id_a_v5))

ArxivEntries ==
    { Entry_full,
      ArxivEntry(Some(T_ab), <<>>, Some(Date_2020), Some(Id_a)),
      ArxivEntry(Some(T_ab), <<Name_7>>, None, Some(Id_a_v5)),
      ArxivEntry(Some(T_abc), <<Name_c>>, Some(Date_2017), Some(Id_b_v12)),
      ArxivEntry(Some(T_ab), <<Name_c>>, Some(Date_bad), Some(Id_b_v12)),
      ArxivEntry(Some(T_ab), <<>>, Some(Date_2017), None),
      ArxivEntry(None, <<Name_c>>, Some(Date_2017), Some(Id_a)) }

DblpHit(title, venue, authors, year, key, ee, bib) ==
    [title |-> title, venue |-> venue, authors |-> authors, year |-> year,
     key |-> key, ee |-> ee, bib |-> bib]

Hit_CoRR == DblpHit(Some(T_ab), Some(CoRR), <<Name_Ab>>, Some(<<"2","0","1","9">>),
                    Some(Key_1), Some(Url_d), Some(Bib_1))
Hit_V == DblpHit(Some(T_abc), Some(Venue_V), <<Name_Ab, Name_c>>, Some(<<"2","0","2","0">>),
                 Some(Key_1), Some(Url_d), Some(Bib_1))

DblpHits ==
    { Hit_CoRR,
      Hit_V,
      DblpHit(Some(T_AB), Some(Venue_v), <<>>, Some(<<"x">>),
              None, Some(Url_e), Some(Bib_2)),
      DblpHit(Some(T_ab), None, <<Name_c>>, Some(<<"2","0","2","0">>),
              Some(Key_2), Some(Url_e), Some(Bib_2)),
      DblpHit(Some(T_far), Some(Venue_V), <<Name_c>>, Some(<<"2","0","2","1">>),
              Some(Key_2), Some(Url_e), Some(Bib_2)),
      DblpHit(Some(T_ab), Some(Venue_V), <<Name_7>>, None,
              Some(Key_2), None, None) }

SeqsUpTo(S, n) == UNION { [1..m -> S] : m \in 0..n }

Failed == [ok |-> FALSE]
Fetched(entries) == [ok |-> TRUE, entries |-> entries]

ArxivResponses == {Failed} \cup { Fetched(e) : e \in SeqsUpTo(ArxivEntries, MaxCands) }
DblpResponses == {Failed} \cup { Fetched(h) : h \in SeqsUpTo(DblpHits, MaxCands) }

Paper(title, authors, publications) ==
    [title |-> title, authors |-> authors, labels |-> <<"l">>,
     publications |-> publications]

\* record files as loaded: publications unique by case-insensitive name
InitPapers ==
    { Paper(T_ab, None, <<>>),
      Paper(T_ab, Some(<<"x">>),
            <<Publication(arXiv, Some(Url_b), Some(2016), Some(1), Some(2), None, None)>>),
      Paper(T_ab, Some(<<>>),
            <<Publication(Venue_V, None, Some(2020), None, None, Some(Key_1), None)>>),
      Paper(T_ab, None,
            <<Publication(Venue_ARXIV, Some(Url_a), None, None, None, None, None)>>),
      Paper(T_ab, None,
            <<Publication(arXiv, Some(Url_a), Some(2017), Some(6), Some(12), None, None),
              Publication(Venue_v, Some(Url_d), Some(2020), None, None, Some(Key_1),
                          Some(Bib_1))>>) }

NoCall == [op |-> "none", call |-> 0]

(***************************************************************************)
(* SpecReconcile: one record, reconciled by either function of             *)
(* main_improved.rs, any number of times (up to MaxCalls) in any order.    *)
(* The caller drops the report of a call before it makes the next one.     *)
(***************************************************************************)
CurrentPaper == papers[idx].paper

Called(op, resp, st0, out) ==
    [op |-> op, call |-> last.call + 1, resp |-> resp,
     before |-> CurrentPaper, stats0 |-> st0,
     after |-> out.paper, stats1 |-> out.stats,
     events |-> out.events, result |-> out.result]

InitRecord(start) ==
    /\ pc = start
    /\ \E p \in InitPapers :
         /\ papers = <<[path |-> 1, paper |-> p]>>
         /\ disk = <<[yml |-> TRUE, parsed |-> Some(p)]>>
    /\ idx = 1
    /\ stats = UpdateStats_new
    /\ log = <<>>
    /\ last = NoCall

InitReconcile == InitRecord("reconcile")

ReconcileArxiv ==
    /\ pc = "reconcile"
    /\ last.op = "none"
    /\ last.call < MaxCalls
    /\ \E resp \in ArxivResponses :
         \E out \in {update_paper_from_arxiv(CurrentPaper, ArxivThresholdTenths, stats, resp)} :
             /\ papers' = [papers EXCEPT ![idx].paper = out.paper]
             /\ stats' = out.stats
             /\ last' = Called("arxiv", resp, stats, out)
    /\ UNCHANGED <<pc, idx, disk, log>>

ReconcileDblp ==
    /\ pc = "reconcile"
    /\ last.op = "none"
    /\ last.call < MaxCalls
    /\ \E resp \in DblpResponses :
         \E out \in {update_paper_from_dblp(CurrentPaper, DblpThresholdTenths, stats, resp)} :
             /\ papers' = [papers EXCEPT ![idx].paper = out.paper]
             /\ stats' = out.stats
             /\ last' = Called("dblp", resp, stats, out)
    /\ UNCHANGED <<pc, idx, disk, log>>

DropReport ==
    /\ pc \in {"reconcile", "legacy"}
    /\ last.op # "none"
    /\ last' = [op |-> "none", call |-> last.call]
    /\ UNCHANGED <<pc, papers, idx, stats, disk, log>>

NextReconcile == ReconcileArxiv \/ ReconcileDblp \/ DropReport

SpecReconcile == InitReconcile /\ [][NextReconcile]_vars

(***************************************************************************)
(* SpecLegacy: one record, reconciled by main.rs's update_paper_from_dblp  *)
(***************************************************************************)
InitLegacy == InitRecord("legacy")

LegacyDblp ==
    /\ pc = "legacy"
    /\ last.op = "none"
    /\ last.call < MaxCalls
    /\ \E resp \in DblpResponses :
         \E out \in {legacy_update_paper_from_dblp(CurrentPaper, LegacyAcc, resp)} :
             /\ papers' = [papers EXCEPT ![idx].paper = out.paper]
             /\ last' = Called("legacy_dblp", resp, stats,
                               out @@ [stats |-> stats, events |-> <<>>])
             \* a panic or an Err ends main.rs's run
             /\ pc' = IF out.result = "ok" THEN "legacy" ELSE "aborted"
    /\ UNCHANGED <<idx, stats, disk, log>>

NextLegacy == LegacyDblp \/ DropReport

SpecLegacy == InitLegacy /\ [][NextLegacy]_vars

(***************************************************************************)
(* SpecScore: similarity_score applied to every pair of short titles       *)
(***************************************************************************)
TitleChars == {"a", "B", " ", "-"}
Titles == SeqsUpTo(TitleChars, MaxTitleLen)

InitScore ==
    /\ pc = "score"
    /\ papers = <<>>
    /\ idx = 0
    /\ stats = UpdateStats_new
    /\ disk = <<>>
    /\ log = <<>>
    /\ \E s1 \in Titles, s2 \in Titles : last = [op |-> "args", call |-> 0, s1 |-> s1, s2 |-> s2]

Score ==
    /\ pc = "score"
    /\ last.op = "args"
    /\ last' = [op |-> "similarity_score", call |-> 1, s1 |-> last.s1, s2 |-> last.s2,
                score |-> similarity_score(last.s1, last.s2)]
    /\ UNCHANGED <<pc, papers, idx, stats, disk, log>>

NextScore == Score

SpecScore == InitScore /\ [][NextScore]_vars

(***************************************************************************)
(* SpecNormalize: normalize_title applied to every short title             *)
(***************************************************************************)
NormChars == {"a", "B", "7", " ", "\t", "-", "_"}
NormTitles == SeqsUpTo(NormChars, MaxTitleLen)

InitNormalize ==
    /\ pc = "normalize"
    /\ papers = <<>>
    /\ idx = 0
    /\ stats = UpdateStats_new
    /\ disk = <<>>
    /\ log = <<>>
    /\ \E title \in NormTitles : last = [op |-> "arg", call |-> 0, title |-> title]

Normalize ==
    /\ pc = "normalize"
    /\ last.op = "arg"
    /\ last' = [op |-> "normalize_title", call |-> 1, title |-> last.title,
                out |-> normalize_title(last.title)]
    /\ UNCHANGED <<pc, papers, idx, stats, disk, log>>

NextNormalize == Normalize

SpecNormalize == InitNormalize /\ [][NextNormalize]_vars

(***************************************************************************)
(* Spec: main of main_improved.rs, the batch driver                        *)
(***************************************************************************)
\* a directory entry: a .yml file that parses to a Paper, one that does not, or
\* a file with another extension
YmlFile(paper) == [yml |-> TRUE, parsed |-> Some(paper)]
BadYmlFile == [yml |-> TRUE, parsed |-> None]
OtherFile == [yml |-> FALSE, parsed |-> None]
Truncated == [yml |-> TRUE, parsed |-> None, partial |-> TRUE]

DriverPapers == { p \in InitPapers : is_none(p.authors) }
DriverFiles == { YmlFile(p) : p \in DriverPapers } \cup {BadYmlFile, OtherFile}

\* the remote answers drawn in the driver: a failure, no entry, or one entry
DriverArxivResponses == {Failed, Fetched(<<>>), Fetched(<<Entry_full>>)}
DriverDblpResponses == {Failed, Fetched(<<>>), Fetched(<<Hit_V>>), Fetched(<<Hit_CoRR>>)}

RECURSIVE LoadFrom(_, _)
\* the loop over read_dir: papers.push((path, paper)) for each .yml that parses
LoadFrom(files, k) ==
    IF k > Len(files) THEN <<>>
    ELSE IF files[k].yml /\ is_some(files[k].parsed)
         THEN <<[path |-> k, paper |-> files[k].parsed[1]]>> \o LoadFrom(files, k + 1)
         ELSE LoadFrom(files, k + 1)

LoadErrors(files) == Cardinality({k \in 1..Len(files) : files[k].yml /\ is_none(files[k].parsed)})

RECURSIVE InsertByKey(_, _)
\* x goes after every element whose key is not larger: the sort is stable
InsertByKey(sorted, x) ==
    IF sorted = <<>> THEN <<x>>
    ELSE IF Len(sorted[Len(sorted)].paper.publications) <= Len(x.paper.publications)
         THEN Append(sorted, x)
         ELSE Append(InsertByKey(SubSeq(sorted, 1, Len(sorted) - 1), x), sorted[Len(sorted)])

RECURSIVE SortFrom(_, _, _)
SortFrom(loaded, k, sorted) ==
    IF k > Len(loaded) THEN sorted ELSE SortFrom(loaded, k + 1, InsertByKey(sorted, loaded[k]))

sort_by_key_unsorted(loaded) == loaded

\* papers.sort_by_key(|(_, paper)| paper.publications.len())
sort_by_key(loaded) == SortFrom(loaded, 1, <<>>)

count_error_not(st) == st

\* stats.errors += 1
count_error(st) == [st EXCEPT !.errors = @ + 1]

\* if let Err(e) = update_paper_from_..(..).await { stats.errors += 1; }
after_source(out) ==
    IF out.result = "err" THEN [out EXCEPT !.stats = count_error(@)] ELSE out

Init ==
    /\ pc = "load"
    /\ papers = <<>>
    /\ idx = 0
    /\ stats = UpdateStats_new
    /\ disk = <<>>
    /\ log = <<>>
    /\ last = NoCall

\* read_dir fails, or an entry of it does: main returns Err before any record is touched
ReadDirFails ==
    /\ pc = "load"
    /\ pc' = "failed"
    /\ UNCHANGED <<papers, idx, stats, disk, log, last>>

Load ==
    /\ pc = "load"
    /\ \E files \in SeqsUpTo(DriverFiles, MaxPapers) :
         /\ disk' = files
         /\ papers' = sort_by_key(LoadFrom(files, 1))
         /\ stats' = [stats EXCEPT !.errors = @ + LoadErrors(files)]
         /\ pc' = IF LoadFrom(files, 1) = <<>> THEN "done" ELSE "arxiv"
         /\ log' = << <<0, files>> >>
    /\ idx' = 1
    /\ UNCHANGED last

\* the head of the loop body (papers_processed += 1, the backup, whose failure is
\* only a warning) and the arXiv call with its error arm
DriverArxiv ==
    /\ pc = "arxiv"
    /\ \E resp \in DriverArxivResponses :
         LET st0 == [stats EXCEPT !.papers_processed = @ + 1]
         IN  \E out \in {after_source(update_paper_from_arxiv(
                             CurrentPaper, ArxivThresholdTenths, st0, resp))} :
                 /\ papers' = [papers EXCEPT ![idx].paper = out.paper]
                 /\ stats' = out.stats
                 /\ last' = Called("arxiv", resp, st0, out)
    /\ log' = Append(log, <<papers[idx].path, "arxiv">>)
    /\ pc' = "dblp"
    /\ UNCHANGED <<idx, disk>>

DriverDblp ==
    /\ pc = "dblp"
    /\ \E resp \in DriverDblpResponses :
         \E out \in {after_source(update_paper_from_dblp(
                         CurrentPaper, DblpThresholdTenths, stats, resp))} :
             /\ papers' = [papers EXCEPT ![idx].paper = out.paper]
             /\ stats' = out.stats
             /\ last' = Called("dblp", resp, stats, out)
    /\ log' = Append(log, <<papers[idx].path, "dblp">>)
    /\ pc' = "save"
    /\ UNCHANGED <<idx, disk>>

NextRecord ==
    /\ idx' = idx + 1
    /\ pc' = IF idx = Len(papers) THEN "done" ELSE "arxiv"
    /\ log' = Append(log, <<papers[idx].path, "save">>)
    /\ last' = [op |-> "none", call |-> last.call]

\* File::create, serde_yml::to_writer and flush all succeed
SaveOk ==
    /\ pc = "save"
    /\ disk' = [disk EXCEPT ![papers[idx].path] = YmlFile(CurrentPaper)]
    /\ NextRecord
    /\ UNCHANGED <<papers, stats>>

\* File::create fails (the file is as it was), or to_writer / flush fails after
\* File::create truncated it
SaveFails ==
    /\ pc = "save"
    /\ \/ disk' = disk
       \/ disk' = [disk EXCEPT ![papers[idx].path] = Truncated]
    /\ stats' = count_error(stats)
    /\ NextRecord
    /\ UNCHANGED papers

Next == ReadDirFails \/ Load \/ DriverArxiv \/ DriverDblp \/ SaveOk \/ SaveFails

Spec == Init /\ [][Next]_vars

(***************************************************************************)
(* Vocabulary of the properties                                            *)
(***************************************************************************)
IsReconcile == last.op \in {"arxiv", "dblp"}
Returned == IsReconcile /\ last.result = "ok"
Entries == last.resp.entries

Has(events, e) == \E k \in 1..Len(events) : events[k] = e

\* authors absent, or present as the empty string
AuthorsEmpty(paper) == paper.authors = None \/ paper.authors = Some(<<>>)

ScoreOf(entry, paper) == similarity_score(unwrap_or(entry.title, <<>>), paper.title)

\* the candidate meets the threshold of its source and passes its venue filter
Qualifies(op, entry, paper) ==
    IF op = "arxiv" THEN meets_threshold(ScoreOf(entry, paper), ArxivThresholdTenths)
    ELSE /\ meets_threshold(ScoreOf(entry, paper), DblpThresholdTenths)
         /\ entry.venue # None /\ entry.venue # Some(<<>>) /\ entry.venue # Some(CoRR)

\* index of the first qualifying candidate of the call in last, 0 when none qualifies
First ==
    \* Q: the indices of the qualifying candidates
    LET Q == {k \in 1..Len(Entries) : Qualifies(last.op, Entries[k], last.before)}
    IN  IF Q = {} THEN 0 ELSE CHOOSE k \in Q : \A j \in Q : k <= j

UniqueNames(pubs) ==
    \A j, k \in 1..Len(pubs) :
        j # k => to_lowercase(pubs[j].name) # to_lowercase(pubs[k].name)

\* the history agrees with the state: the record held is the one the call returned
HistoryIsState == IsReconcile => CurrentPaper = last.after /\ stats = last.stats1

(***************************************************************************)
(* C1: after any number of reconciliations of a record whose publications  *)
(* are unique by case-insensitive name, the record holds at most one       *)
(* Publication per case-insensitive venue name.                            *)
(* Violated: update_paper_from_arxiv looks for name == "arXiv" exactly and *)
(* appends "arXiv" beside an entry named "ARXIV".                          *)
(***************************************************************************)
C1_UniquePerVenueName == UniqueNames(CurrentPaper.publications)

(***************************************************************************)
(* C2: once authors is non-empty no reconciliation changes it; authors is  *)
(* only ever set from empty.                                               *)
(***************************************************************************)
C2_AuthorsNeverOverwritten ==
    /\ HistoryIsState
    /\ IsReconcile =>
         /\ ~AuthorsEmpty(last.before) => last.after.authors = last.before.authors
         /\ last.after.authors # last.before.authors => AuthorsEmpty(last.before)

\* a qualifying candidate with author names met a record whose authors were set
C2_Witness ==
    /\ Returned
    /\ First # 0
    /\ Entries[First].authors # <<>>
    /\ last.before.authors = Some(<<"x">>)
    /\ last.call = 2

(***************************************************************************)
(* C3: in the DBLP merge every url, dblp_key and bibtex of an existing     *)
(* Publication that was populated before the call has the same value after *)
(* it, whatever the candidate supplies.                                    *)
(***************************************************************************)
C3_PopulatedFieldsKept ==
    (last.op = "dblp") =>
        /\ CurrentPaper = last.after
        /\ Len(last.after.publications) >= Len(last.before.publications)
        /\ \A k \in 1..Len(last.before.publications) :
             LET old == last.before.publications[k]
                 new == last.after.publications[k]
             IN  /\ is_some(old.url) => new.url = old.url
                 /\ is_some(old.dblp_key) => new.dblp_key = old.dblp_key
                 /\ is_some(old.bibtex) => new.bibtex = old.bibtex

\* the candidate merged names an existing Publication and supplies another key
C3_Witness ==
    /\ last.op = "dblp" /\ last.result = "ok"
    /\ First # 0
    /\ \E k \in 1..Len(last.before.publications) :
         LET old == last.before.publications[k]
         IN  /\ to_lowercase(old.name) = to_lowercase(Entries[First].venue[1])
             /\ is_some(old.dblp_key)
             /\ is_some(Entries[First].key)
             /\ Entries[First].key # old.dblp_key

(***************************************************************************)
(* C4: the arXiv path.                                                     *)
(***************************************************************************)
ArxivDate(entry) ==
    IF is_some(entry.published) THEN parse_from_rfc3339(entry.published[1]) ELSE None

\* the Publication built only from the candidate
FreshArxiv(entry) ==
    LET d == ArxivDate(entry)[1]
    IN  [name |-> arXiv, url |-> Some(clean_url(entry.id[1])),
         year |-> Some(d.year), month |-> Some(d.month), day |-> Some(d.day),
         dblp_key |-> None, bibtex |-> None]

\* what the claim says of a merged candidate
ArxivMergedAsClaimed(entry) ==
    LET pubs == last.before.publications
        has  == \E k \in 1..Len(pubs) : pubs[k].name = arXiv
        k    == CHOOSE i \in 1..Len(pubs) :
                    pubs[i].name = arXiv /\ \A j \in 1..(i - 1) : pubs[j].name # arXiv
    IN  /\ is_some(ArxivDate(entry)) /\ is_some(entry.id)
        /\ IF has
           THEN /\ last.after.publications = [pubs EXCEPT ![k] = FreshArxiv(entry)]
                /\ Has(last.events, "updated") <=> pubs[k].url # FreshArxiv(entry).url
                /\ ~Has(last.events, "new publication")
           ELSE /\ last.after.publications = Append(pubs, FreshArxiv(entry))
                /\ Has(last.events, "new publication")
                /\ ~Has(last.events, "updated")

\* C4 as stated: for the candidate that meets the threshold, the record afterwards
\* contains an "arXiv" Publication built only from that candidate, replacing an
\* existing "arXiv" entry or appended, with the event the claim names.
\* Violated by a candidate without a publish date that parses, or without an id.
C4_Original ==
    (last.op = "arxiv" /\ last.result = "ok") =>
        \A f \in {First} : f # 0 => ArxivMergedAsClaimed(Entries[f])

\* C4 amended: for the first candidate that meets the threshold, when it carries a
\* publish date that parses and an id, the record afterwards contains an "arXiv"
\* Publication built only from that candidate (replacing the existing "arXiv"
\* entry wholesale, otherwise appended; "new publication" if none existed,
\* "updated" if one existed and the URL changed, no event if the URL is the same);
\* without such a date or id the publications are left as they were and no
\* publication event is emitted.
C4_ArxivPath ==
    (last.op = "arxiv" /\ last.result = "ok") =>
        \A f \in {First} : f # 0 =>
            /\ CurrentPaper = last.after
            /\ IF is_some(ArxivDate(Entries[f])) /\ is_some(Entries[f].id)
               THEN ArxivMergedAsClaimed(Entries[f])
               ELSE /\ last.after.publications = last.before.publications
                    /\ ~Has(last.events, "updated")
                    /\ ~Has(last.events, "new publication")

\* an existing "arXiv" entry with another URL is replaced by a candidate whose id
\* carries a version suffix: "updated"
C4_Witness ==
    /\ last.op = "arxiv" /\ last.result = "ok"
    /\ First # 0
    /\ is_some(ArxivDate(Entries[First])) /\ is_some(Entries[First].id)
    /\ Entries[First].id[1] # clean_url(Entries[First].id[1])
    /\ \E k \in 1..Len(last.before.publications) :
         /\ last.before.publications[k].name = arXiv
         /\ last.before.publications[k] # last.after.publications[k]
    /\ Has(last.events, "updated")

(***************************************************************************)
(* C5: first-match-wins.  The record, the statistics and the events of a   *)
(* call are those of the merge applied to the first qualifying candidate   *)
(* alone; with no qualifying candidate nothing changes and nothing is      *)
(* recorded.                                                               *)
(***************************************************************************)
MergeOf(op, entry) ==
    IF op = "arxiv" THEN arxiv_merge(last.before, last.stats0, entry)
    ELSE dblp_merge(last.before, last.stats0, entry, entry.venue[1])

C5_FirstMatchWins ==
    Returned =>
        /\ HistoryIsState
        /\ \A f \in {First} :
             IF f = 0
             THEN /\ last.after = last.before
                  /\ last.stats1 = last.stats0
                  /\ last.events = <<>>
             ELSE \A m \in {MergeOf(last.op, Entries[f])} :
                      /\ last.after = m.paper
                      /\ last.stats1 = m.stats
                      /\ last.events = m.events

\* a later candidate qualifies too, and merging it would have given another record
C5_Witness ==
    /\ Returned
    /\ First # 0
    /\ \E j \in (First + 1)..Len(Entries) :
         /\ Qualifies(last.op, Entries[j], last.before)
         /\ ScoreOf(Entries[j], last.before).num * ScoreOf(Entries[First], last.before).den
              > ScoreOf(Entries[First], last.before).num * ScoreOf(Entries[j], last.before).den
         /\ MergeOf(last.op, Entries[j]).paper # last.after

(***************************************************************************)
(* C6: in every update_paper_from_dblp (main.rs and main_improved.rs) a    *)
(* hit whose venue is "CoRR" is skipped entirely: it changes no field of   *)
(* the record, authors included.  Stated for a response in which every hit *)
(* is a CoRR hit: the record is then as it was.                            *)
(* Violated by main.rs, which sets authors before it looks at the venue.   *)
(***************************************************************************)
AllCoRR ==
    /\ last.resp.ok
    /\ Entries # <<>>
    /\ \A k \in 1..Len(Entries) : Entries[k].venue = Some(CoRR)

C6_CoRRSkippedEntirely ==
    (last.op \in {"dblp", "legacy_dblp"} /\ AllCoRR) =>
        /\ last.after = last.before
        /\ CurrentPaper = last.before

(***************************************************************************)
(* C7: in the batch driver, when the call of one source fails for a record *)
(* the error count grows by exactly one, the record is as it was before    *)
(* the call, the driver goes on to the other source and to the save of the *)
(* same record, and every loaded record has gone through arXiv, DBLP and   *)
(* save, in that order, when the run is done.                              *)
(***************************************************************************)
StepsOf(path) == SelectSeq(log, LAMBDA e : e[1] = path)

C7_SourceErrorIsolated ==
    /\ (pc \in {"dblp", "save"} /\ last.result = "err") =>
          /\ stats = [last.stats0 EXCEPT !.errors = @ + 1]
          /\ CurrentPaper = last.before
          /\ last.op = (IF pc = "dblp" THEN "arxiv" ELSE "dblp")
          /\ log[Len(log)] = <<papers[idx].path, last.op>>
    /\ (pc = "save") =>
          /\ Len(log) >= 2
          /\ log[Len(log) - 1] = <<papers[idx].path, "arxiv">>
          /\ log[Len(log)] = <<papers[idx].path, "dblp">>
    /\ (pc = "done") =>
          /\ stats.papers_processed = Len(papers)
          /\ \A k \in 1..Len(papers) :
               StepsOf(papers[k].path) =
                  <<<<papers[k].path, "arxiv">>, <<papers[k].path, "dblp">>,
                    <<papers[k].path, "save">>>>

\* the arXiv call of a record failed while another record is still to come
C7_Witness ==
    /\ pc = "dblp"
    /\ last.op = "arxiv"
    /\ last.result = "err"
    /\ idx < Len(papers)

(***************************************************************************)
(* C8: similarity_score(a, b) = 0.7 * jaccard + 0.3 * (1 - lev / max len)  *)
(* over the normalized titles and their token sets, 0.0 when both titles   *)
(* normalize to empty; the score lies in [0, 1], is 1.0 when the           *)
(* normalized titles are equal and non-empty, 0.0 when both are empty.     *)
(***************************************************************************)
RECURSIVE EditDistance(_, _)
\* the Levenshtein distance by its defining recursion
EditDistance(a, b) ==
    IF a = <<>> THEN Len(b)
    ELSE IF b = <<>> THEN Len(a)
    ELSE Min2(Min2(EditDistance(Tail(a), b) + 1, EditDistance(a, Tail(b)) + 1),
              EditDistance(Tail(a), Tail(b)) + (IF a[1] = b[1] THEN 0 ELSE 1))

C8_ScoreFormula ==
    (last.op = "similarity_score") =>
        LET n1 == normalize_title(last.s1)
            n2 == normalize_title(last.s2)
            w1 == split_whitespace(n1)
            w2 == split_whitespace(n2)
            A  == {w1[k] : k \in 1..Len(w1)}
            B  == {w2[k] : k \in 1..Len(w2)}
            I  == Cardinality(A \cap B)
            U  == Cardinality(A \cup B)
            M  == IF Len(n1) >= Len(n2) THEN Len(n1) ELSE Len(n2)
            L  == EditDistance(n1, n2)
            sc == last.score
        IN  /\ sc.den > 0
            /\ IF n1 = <<>> /\ n2 = <<>>
               THEN sc.num = 0
               \* sc = 7/10 * I/U + 3/10 * (M - L)/M
               ELSE sc.num * (10 * U * M) = sc.den * (7 * I * M + 3 * (M - L) * U)
            /\ 0 <= sc.num /\ sc.num <= sc.den
            /\ (n1 = n2 /\ n1 # <<>>) => sc.num = sc.den

\* two titles written differently that normalize to the same non-empty string
C8_Witness ==
    /\ last.op = "similarity_score"
    /\ last.s1 # last.s2
    /\ normalize_title(last.s1) = normalize_title(last.s2)
    /\ normalize_title(last.s1) # <<>>
    /\ normalize_title(last.s1) # last.s1
    /\ last.score.num = last.score.den

(***************************************************************************)
(* C9: whenever a candidate qualifies, the record's authors field is empty *)
(* (absent or an empty string) and the candidate supplies at least one     *)
(* author name, authors afterwards is the Author Formatter's output for    *)
(* the candidate's names and an authors-updated change is recorded.        *)
(* Violated: the code tests authors.is_none(), so Some("") is left alone.  *)
(***************************************************************************)
C9_AuthorsSetWhenEmpty ==
    (Returned /\ AuthorsEmpty(last.before)) =>
      \A f \in {First} : (f # 0 /\ Entries[f].authors # <<>>) =>
        /\ last.after.authors =
              Some(extract_authors_last_names(join(Entries[f].authors, <<",", " ">>)))
        /\ Has(last.events, "authors")
        /\ (last.op = "arxiv" => last.stats1.arxiv_updates = last.stats0.arxiv_updates + 1)
        /\ (last.op = "dblp" => last.stats1.dblp_updates = last.stats0.dblp_updates + 1)

(***************************************************************************)
(* C10: the indexed-venue merge with a qualifying candidate.  If a         *)
(* Publication with the candidate's venue (case-insensitive) exists,       *)
(* exactly the fields among url, dblp_key, bibtex that were empty and that *)
(* the candidate supplies are filled with the candidate's values, and      *)
(* "updated" is emitted iff a field was filled; if none exists, one        *)
(* Publication populated from the candidate is appended (an unparsable     *)
(* year stored as absent) and "new publication" is emitted.                *)
(***************************************************************************)
\* the bibtex blob the candidate supplies: fetched by key, absent without a key
CandBibtex(hit) == IF hit.key = None THEN None ELSE hit.bib

Filled(old, cand) == IF old = None /\ cand # None THEN cand ELSE old

C10_IndexedVenueMerge ==
    (last.op = "dblp" /\ last.result = "ok") =>
      \A f \in {First} : f # 0 =>
        LET hit   == Entries[f]
            venue == hit.venue[1]
            pubs  == last.before.publications
            same(k) == to_lowercase(pubs[k].name) = to_lowercase(venue)
            found == \E k \in 1..Len(pubs) : same(k)
            k0    == CHOOSE k \in 1..Len(pubs) : same(k) /\ \A j \in 1..(k - 1) : ~same(j)
            year  == IF hit.year = None THEN None ELSE parse_i32(hit.year[1])
        IN  /\ CurrentPaper = last.after
            /\ IF found
               THEN LET old == pubs[k0]
                        new == [old EXCEPT !.url = Filled(old.url, hit.ee),
                                           !.dblp_key = Filled(old.dblp_key, hit.key),
                                           !.bibtex = Filled(old.bibtex, CandBibtex(hit))]
                    IN  /\ last.after.publications = [pubs EXCEPT ![k0] = new]
                        /\ Has(last.events, "updated") <=> new # old
                        /\ ~Has(last.events, "new publication")
               ELSE /\ last.after.publications =
                          Append(pubs, [name |-> venue, url |-> hit.ee, year |-> year,
                                        month |-> None, day |-> None,
                                        dblp_key |-> hit.key, bibtex |-> CandBibtex(hit)])
                    /\ Has(last.events, "new publication")
                    /\ ~Has(last.events, "updated")

\* an existing Publication with a key and no bibtex met a candidate with a bibtex
\* blob: bibtex filled, the key kept, "updated"
C10_Witness ==
    /\ last.op = "dblp" /\ last.result = "ok"
    /\ First # 0
    /\ \E k \in 1..Len(last.before.publications) :
         LET old == last.before.publications[k]
             new == last.after.publications[k]
         IN  /\ is_some(old.dblp_key) /\ is_none(old.bibtex)
             /\ new.dblp_key = old.dblp_key
             /\ is_some(new.bibtex) /\ new.bibtex = Entries[First].bib
    /\ Has(last.events, "updated")

(***************************************************************************)
(* C12: for every input string, normalize_title returns only lowercase     *)
(* alphanumeric characters and single spaces between words: no other       *)
(* character, no leading or trailing space, no two spaces in a row; and    *)
(* the empty string for the empty input.                                   *)
(* Violated: the pattern [^\w\s] keeps "_", so "a_b" comes back as "a_b".  *)
(***************************************************************************)
IsLowerAlnum(c) == c \in LowerSet \/ c \in DigitSet

SingleSpaced(out) ==
    /\ out # <<>> => out[1] # " " /\ out[Len(out)] # " "
    /\ \A k \in 1..(Len(out) - 1) : ~(out[k] = " " /\ out[k + 1] = " ")

C12_NormalizedShape ==
    last.op = "normalize_title" =>
        /\ \A k \in 1..Len(last.out) : IsLowerAlnum(last.out[k]) \/ last.out[k] = " "
        /\ SingleSpaced(last.out)
        /\ last.title = <<>> => last.out = <<>>

(***************************************************************************)
(* C11: the batch driver processes the loaded records one at a time, in    *)
(* ascending order of their publication count at load (a record with fewer *)
(* publications at load is never processed after one with more), and for   *)
(* each record the arXiv reconciliation is over before the DBLP one        *)
(* starts, which is over before the record is saved.                       *)
(***************************************************************************)
LoadedFiles == log[1][2]
DriverSteps == Tail(log)
LoadCount(path) == Len(LoadedFiles[path].parsed[1].publications)
StepNames == <<"arxiv", "dblp", "save">>

\* the steps already run for the record in hand
StepsInHand == CASE pc = "dblp" -> 1 [] pc = "save" -> 2 [] OTHER -> 0

C11_AscendingOneAtATime ==
    pc \in {"arxiv", "dblp", "save", "done"} =>
        /\ {papers[k].path : k \in 1..Len(papers)} =
              {p \in 1..Len(LoadedFiles) :
                  LoadedFiles[p].yml /\ LoadedFiles[p].parsed # None}
        /\ \A j, k \in 1..Len(papers) : j # k => papers[j].path # papers[k].path
        /\ Len(DriverSteps) = 3 * (idx - 1) + StepsInHand
        /\ \A n \in 1..Len(DriverSteps) :
              DriverSteps[n] = <<papers[((n - 1) \div 3) + 1].path,
                                StepNames[((n - 1) % 3) + 1]>>
        /\ \A m, n \in 1..Len(DriverSteps) :
              m < n => LoadCount(DriverSteps[m][1]) <= LoadCount(DriverSteps[n][1])
        /\ pc = "done" => Len(DriverSteps) = 3 * Len(papers)

\* the run is over and the sort moved a record with fewer publications ahead of
\* one that was read before it
C11_Witness ==
    /\ pc = "done"
    /\ Len(DriverSteps) = 6
    /\ DriverSteps[1][1] > DriverSteps[4][1]
    /\ LoadCount(DriverSteps[1][1]) < LoadCount(DriverSteps[4][1])

(***************************************************************************)
(* C13: every reconcile call, of either source, leaves the number of       *)
(* publications of the record unchanged or larger by exactly one, never    *)
(* smaller, and adds exactly that amount to stats.new_publications; so     *)
(* after any number of calls new_publications is the number of             *)
(* publications appended since the record was loaded, and arxiv_updates    *)
(* and dblp_updates each grow by at most one per call.                     *)
(***************************************************************************)
Appended(before, after) == Len(after.publications) - Len(before.publications)

LoadedPaper == disk[papers[idx].path].parsed[1]

C13_NewPublicationsCounted ==
    /\ IsReconcile =>
          /\ Appended(last.before, last.after) \in {0, 1}
          /\ last.stats1.new_publications =
                last.stats0.new_publications + Appended(last.before, last.after)
          /\ last.stats1.arxiv_updates - last.stats0.arxiv_updates \in {0, 1}
          /\ last.stats1.dblp_updates - last.stats0.dblp_updates \in {0, 1}
    /\ stats.new_publications = Appended(LoadedPaper, CurrentPaper)
    /\ stats.arxiv_updates + stats.dblp_updates <= last.call

\* the second call appended a second publication to the record
C13_Witness ==
    /\ IsReconcile
    /\ last.call = 2
    /\ Appended(last.before, last.after) = 1
    /\ stats.new_publications = 2
    /\ stats.arxiv_updates = 1
    /\ stats.dblp_updates = 1

====
